---- MODULE Spec2Model ----
(***************************************************************************)
(* Model of src/morningstar_crawler.py: the Morningstar crawler.           *)
(*                                                                         *)
(* Python strings are TLA+ strings; characters are read with SubSeq.       *)
(* The browser driver and the file system are the environment: every call  *)
(* that can raise (a wait that times out, an element that is not found)    *)
(* is a nondeterministic choice between its outcomes.                      *)
(***************************************************************************)
EXTENDS Integers, Sequences, FiniteSets, TLC

(***************************************************************************)
(* Bounds of the model.                                                    *)
(***************************************************************************)
MaxCols == 2
MaxRows == 2
MaxGroups == 2
MaxCards == 2
MaxEntries == 2
MaxParts == 2
MaxCalls == 2

(***************************************************************************)
(* Python string primitives.                                               *)
(***************************************************************************)
\* The characters str.strip() removes, those for which str.isspace() holds:
\* U+0009-U+000D, U+001C-U+001F, U+0020, U+0085, U+00A0.  (The others,
\* U+1680, U+2000-U+200A, U+2028, U+2029, U+202F, U+205F and U+3000, cannot
\* occur in a string of this module.)
Whitespace == {"\t", "\n", "", "\f", "\r", "", "", "", "", " ", "", " "}

CharAt(s, i) == SubSeq(s, i, i)

\* Python: sub in s
Contains(s, sub) ==
    \E i \in 1..(Len(s) - Len(sub) + 1) : SubSeq(s, i, i + Len(sub) - 1) = sub

RECURSIVE lstrip(_)
lstrip(s) ==
    IF Len(s) > 0 /\ CharAt(s, 1) \in Whitespace THEN lstrip(Tail(s)) ELSE s

RECURSIVE rstrip(_)
rstrip(s) ==
    IF Len(s) > 0 /\ CharAt(s, Len(s)) \in Whitespace
    THEN rstrip(SubSeq(s, 1, Len(s) - 1))
    ELSE s

\* Python: s.strip()
strip(s) == rstrip(lstrip(s))

\* Python: s.split(sep) for a one-character sep: every occurrence of sep
\* cuts, so adjacent separators give empty tokens.  cur is the token being
\* read, acc the tokens already cut.
RECURSIVE split_from(_, _, _, _)
split_from(s, sep, cur, acc) ==
    IF Len(s) = 0 THEN Append(acc, cur)
    ELSE IF CharAt(s, 1) = sep
         THEN split_from(Tail(s), sep, "", Append(acc, cur))
         ELSE split_from(Tail(s), sep, cur \o CharAt(s, 1), acc)

split(s, sep) == split_from(s, sep, "", <<>>)

\* Python: "".join(parts)
RECURSIVE join(_)
join(parts) ==
    IF parts = <<>> THEN "" ELSE Head(parts) \o join(Tail(parts))

\* Python: seq[-2:]
last_two(seq) ==
    IF Len(seq) <= 2 THEN seq ELSE SubSeq(seq, Len(seq) - 1, Len(seq))

\* Python: s.replace(old, "") for a one-character old
RECURSIVE remove_char(_, _)
remove_char(s, old) ==
    IF Len(s) = 0 THEN ""
    ELSE IF CharAt(s, 1) = old
         THEN remove_char(Tail(s), old)
         ELSE CharAt(s, 1) \o remove_char(Tail(s), old)

(***************************************************************************)
(* MorningstarCrawler.URLType and _analyze_url.                            *)
(***************************************************************************)
OPEN == "OPEN"
CLICK == "CLICK"
UNSUPPORTED == "UNSUPPORTED"
URLType == {OPEN, CLICK, UNSUPPORTED}

_analyze_url_ClickFirst(url) ==
    IF Contains(url, "model-portfolio") THEN CLICK
    ELSE IF Contains(url, "pick-list") THEN OPEN
    ELSE UNSUPPORTED

_analyze_url(url) ==
    IF Contains(url, "pick-list") THEN OPEN
    ELSE IF Contains(url, "model-portfolio") THEN CLICK
    ELSE UNSUPPORTED

(***************************************************************************)
(* _get_stock_details: the table extractor.                                *)
(*                                                                         *)
(* A table region is [ths, tbodies]: ths the header cells' texts, tbodies  *)
(* the row groups, each a sequence of rows, each row the texts of its      *)
(* "mdc-table-cell" elements.  Indexes are 0-based as in the code.         *)
(***************************************************************************)
interesting_columns == {"Name", "Ticker", "Fair Value", "Price/Fair Value"}

filter_criteria == [c \in {"Base Currency"} |-> {"US Dollar"}]

\* dict[key] = value
dict_set(d, key, value) ==
    [k \in DOMAIN d \cup {key} |-> IF k = key THEN value ELSE d[k]]

empty_dict == [k \in {} |-> 0]

\* Lines 191-195: for i, th in enumerate(ths), from index i on.
RECURSIVE scan_interesting(_, _, _)
scan_interesting(ths, i, interesting_indexes) ==
    IF i >= Len(ths) THEN interesting_indexes
    ELSE scan_interesting(ths, i + 1,
            IF strip(ths[i + 1]) \in interesting_columns
            THEN dict_set(interesting_indexes, strip(ths[i + 1]), i)
            ELSE interesting_indexes)

RECURSIVE scan_filter(_, _, _)
scan_filter(ths, i, filter_indexes) ==
    IF i >= Len(ths) THEN filter_indexes
    ELSE scan_filter(ths, i + 1,
            IF strip(ths[i + 1]) \in DOMAIN filter_criteria
            THEN dict_set(filter_indexes, i, strip(ths[i + 1]))
            ELSE filter_indexes)

\* A fail-closed variant: a filter column missing from the header rejects.
row_filtered_FailClosed(tds, filter_indexes) ==
    \/ DOMAIN filter_indexes = {}
    \/ \E index \in DOMAIN filter_indexes :
          strip(tds[index + 1]) \notin filter_criteria[filter_indexes[index]]

\* Lines 205-210: filtered is set by the first filter column whose trimmed
\* cell is not accepted.
row_filtered(tds, filter_indexes) ==
    \E index \in DOMAIN filter_indexes :
        strip(tds[index + 1]) \notin filter_criteria[filter_indexes[index]]

\* A variant that forgets to trim the cell text.
stock_info_of_NoStrip(tds, interesting_indexes) ==
    [value \in {v \in DOMAIN interesting_indexes :
                    interesting_indexes[v] < Len(tds)}
        |-> tds[interesting_indexes[value] + 1]]

\* Lines 213-216: the record of one kept row.
stock_info_of(tds, interesting_indexes) ==
    [value \in {v \in DOMAIN interesting_indexes :
                    interesting_indexes[v] < Len(tds)}
        |-> strip(tds[interesting_indexes[value] + 1])]

\* Lines 201-217: for row in rows, appending each printed record to out.
RECURSIVE scan_rows(_, _, _, _, _)
scan_rows(rows, ths, interesting_indexes, filter_indexes, out) ==
    IF rows = <<>> THEN out
    ELSE LET tds == Head(rows)
             rest == Tail(rows)
         IN  IF Len(tds) # Len(ths)
             THEN scan_rows(rest, ths, interesting_indexes, filter_indexes, out)
             ELSE IF row_filtered(tds, filter_indexes)
             THEN scan_rows(rest, ths, interesting_indexes, filter_indexes, out)
             ELSE scan_rows(rest, ths, interesting_indexes, filter_indexes,
                            Append(out, stock_info_of(tds, interesting_indexes)))

\* Lines 198-217: for tbody in tbodies.
RECURSIVE scan_tbodies(_, _, _, _, _)
scan_tbodies(tbodies, ths, interesting_indexes, filter_indexes, out) ==
    IF tbodies = <<>> THEN out
    ELSE scan_tbodies(Tail(tbodies), ths, interesting_indexes, filter_indexes,
            scan_rows(Head(tbodies), ths, interesting_indexes, filter_indexes,
                      out))

\* No driver call raises during the scan.
NO_RAISE == -1

\* The row groups the loops of lines 198-217 get through when a driver call
\* raises after n rows have been handled: the first n rows, in their groups.
RECURSIVE rows_before_raise(_, _)
rows_before_raise(tbodies, n) ==
    IF tbodies = <<>> THEN <<>>
    ELSE IF Len(Head(tbodies)) >= n
         THEN <<SubSeq(Head(tbodies), 1, n)>>
         ELSE <<Head(tbodies)>>
              \o rows_before_raise(Tail(tbodies), n - Len(Head(tbodies)))

\* Lines 171-219.  Every driver call in the try can raise (the wait for the
\* container, find_element, find_elements, .text); the exception is caught at
\* line 218, after the records of the rows handled so far were printed at
\* line 217.  raise_after is the number of rows handled before a call raises
\* (0 when the wait or the header scan raises), NO_RAISE when none does; the
\* result is the sequence of records printed.
_get_stock_details(raise_after, region) ==
    LET ths == region.ths
        interesting_indexes == scan_interesting(ths, 0, empty_dict)
        filter_indexes == scan_filter(ths, 0, empty_dict)
        tbodies == IF raise_after = NO_RAISE THEN region.tbodies
                   ELSE rows_before_raise(region.tbodies, raise_after)
    IN  scan_tbodies(tbodies, ths, interesting_indexes, filter_indexes, <<>>)


(***************************************************************************)
(* The catalog page.  A card is [title, href]: title says whether the card *)
(* has an "mdc-card__title" element, href is that element's href attribute *)
(* (get_attribute returns None when the attribute is missing).             *)
(***************************************************************************)
None == [present |-> FALSE, url |-> ""]
Some(u) == [present |-> TRUE, url |-> u]

BASE_URL == "https://research-morningstar-com.ezproxy.sfpl.org/stocks"
LOGIN_URL == "MORNINGSTAR_URL"
PICK_LIST_CLASS == "pick-list__table-container"
MODEL_PORTFOLIO_CLASS == "model-portfolio__table-container"

\* One call on the driver, or one diagnostic step, with its outcome.
Event(op, arg, ok) == [op |-> op, arg |-> arg, ok |-> ok]

(***************************************************************************)
(* State.                                                                  *)
(***************************************************************************)
VARIABLES
    xpc,        \* extractor run: "start" or "done"
    raised_at,  \* extractor run: rows handled before a driver call raised
    table,      \* extractor run: the table region on the page
    printed,    \* extractor run: the records printed, in order
    pc,         \* main: the statement about to run
    driver,     \* main: the browser session, "open" until driver.quit() is called
    catalog,    \* the cards the site serves on the catalog page
    cards,      \* the cards rendered on the page the driver is on
    urls,       \* _get_stocks: urls
    url_types,  \* _get_stocks: url_types
    follow_up,  \* _get_stocks: follow_up, then click_all's urls
    di,          \* _get_stocks: position of the dispatch loop (0-based)
    rj,          \* click_all: position of the revisit loop (0-based), -1 before
    raised,     \* the exception propagating to main, "" when none
    log,        \* the driver calls made so far, in order
    escaped,    \* the exception that left main, "" when none
    npc,        \* get_stock_newsletters: the statement about to run
    headings,   \* the "mdc-heading" elements of the collection page
    arr,        \* get_stock_newsletters: arr
    nidx,       \* get_stock_newsletters: position of the loop over arr
    files,      \* the names of the files in self.download_path
    downloads,  \* get_stock_newsletters: downloads
    ncalls,     \* the calls of _download made by the running call
    names,      \* every (text, file_name) derived at line 237, in order
    mismatches, \* the file names line 267 reported as not found
    results,    \* how each finished call of get_stock_newsletters ended
    calls       \* the calls of _analyze_url made, with their results

xvars == <<xpc, raised_at, table, printed>>
cvars == <<pc, driver, catalog, cards, urls, url_types, follow_up, di, rj,
           raised, log, escaped>>

nvars == <<npc, headings, arr, nidx, files, downloads, ncalls, names,
           mismatches, results>>

vars == <<xpc, raised_at, table, printed, pc, driver, catalog, cards, urls,
          url_types, follow_up, di, rj, raised, log, escaped, npc, headings, arr,
          nidx,
          files, downloads, ncalls, names, mismatches, results, calls>>

IdleExtract ==
    /\ xpc = "idle" /\ raised_at = NO_RAISE
    /\ table = [ths |-> <<>>, tbodies |-> <<>>]
    /\ printed = <<>>

IdleCrawl ==
    /\ pc = "idle" /\ driver = "none"
    /\ catalog = <<>> /\ cards = <<>>
    /\ urls = <<>> /\ url_types = <<>> /\ follow_up = <<>>
    /\ di = 0 /\ rj = -1
    /\ raised = "" /\ log = <<>> /\ escaped = ""

IdleNews ==
    /\ npc = "idle" /\ headings = <<>> /\ arr = <<>> /\ nidx = 0
    /\ files = {} /\ downloads = <<>> /\ ncalls = 0
    /\ names = <<>> /\ mismatches = <<>> /\ results = <<>>

IdleClassify == calls = <<>>

(***************************************************************************)
(* The extractor applied to every table region within the bounds.          *)
(***************************************************************************)
HeaderLabels == {"Name", " Ticker\r\n", "Base Currency "}
CellTexts == {" US Dollar\t", "Euro"}

SeqsUpTo(S, n) == UNION {[1..k -> S] : k \in 0..n}

Headers == SeqsUpTo(HeaderLabels, MaxCols)

\* Rows with a cell under every header, and the row without any data cell.
RowsFor(ths) == [1..Len(ths) -> CellTexts] \cup {<<>>}

RECURSIVE Sum(_)
Sum(sizes) == IF sizes = <<>> THEN 0 ELSE Head(sizes) + Sum(Tail(sizes))

\* The rows cut into row groups of the given sizes, in order.
RECURSIVE Cut(_, _)
Cut(rows, sizes) ==
    IF sizes = <<>> THEN <<>>
    ELSE <<SubSeq(rows, 1, Head(sizes))>>
         \o Cut(SubSeq(rows, Head(sizes) + 1, Len(rows)), Tail(sizes))

\* The ways to cut n rows into at most MaxGroups row groups, empty ones
\* included.
SizesFor(n) == {z \in SeqsUpTo(0..MaxRows, MaxGroups) : Sum(z) = n}

InitExtract ==
    /\ xpc = "start"
    /\ raised_at = NO_RAISE
    /\ \E h \in Headers :
          \E rows \in SeqsUpTo(RowsFor(h), MaxRows) :
             \E sizes \in SizesFor(Len(rows)) :
                table = [ths |-> h, tbodies |-> Cut(rows, sizes)]
    /\ printed = <<>>
    /\ IdleCrawl /\ IdleNews /\ IdleClassify

\* The numbers of rows that can have been handled when a driver call of the
\* try body raises: 0 (the wait of line 175, the lookups of lines 180-182 and
\* 197, th.text), the rows before any row (row.find_elements at line 202,
\* .text at lines 207 and 216), and the rows before any row group
\* (tbody.find_elements at line 199), which is all the rows when the last
\* row group is empty.
raise_points(tbodies) ==
    LET total == Sum([g \in 1..Len(tbodies) |-> Len(tbodies[g])])
    IN  {0} \cup 0..(total - 1)
            \cup (IF tbodies # <<>> /\ tbodies[Len(tbodies)] = <<>>
                  THEN {total} ELSE {})

\* One call of _get_stock_details on the current page: it runs to the end, or
\* a driver call raises and the handler of lines 218-219 prints the error; the
\* call returns in both cases.
GetStockDetails ==
    /\ xpc = "start"
    /\ \E n \in {NO_RAISE} \cup raise_points(table.tbodies) :
          /\ raised_at' = n
          /\ printed' = _get_stock_details(n, table)
    /\ xpc' = "done"
    /\ UNCHANGED <<table, cvars, nvars, calls>>

NextExtract == GetStockDetails

SpecExtract == InitExtract /\ [][NextExtract]_vars

(***************************************************************************)
(* main, login, _get_stocks and click_all.                                 *)
(***************************************************************************)
CardKinds ==
    { [title |-> TRUE, href |-> Some("/stocks/pick-list/dividend")],
      [title |-> TRUE, href |-> Some("/stocks/model-portfolio/tortoise")],
      [title |-> TRUE, href |-> Some("/stocks/model-portfolio/hare")],
      [title |-> TRUE, href |-> Some("/stocks/other")],
      [title |-> TRUE, href |-> None],
      [title |-> FALSE, href |-> None] }

\* The state after MorningstarCrawler() at line 282: the session is open.
InitCrawl ==
    /\ pc = "login"
    /\ driver = "open"
    /\ catalog \in SeqsUpTo(CardKinds, MaxCards)
    /\ cards = <<>>
    /\ urls = <<>> /\ url_types = <<>> /\ follow_up = <<>>
    /\ di = 0 /\ rj = -1
    /\ raised = "" /\ log = <<>> /\ escaped = ""
    /\ IdleExtract /\ IdleNews /\ IdleClassify

\* An exception leaves the try block of main for its except clause.
Raise(exc, newlog) ==
    /\ raised' = exc
    /\ log' = newlog
    /\ pc' = "except"

\* The exception classes of selenium.common.exceptions that a call on the
\* driver or on one of its elements raises.
SeleniumExceptions ==
    {"WebDriverException", "TimeoutException", "NoSuchElementException",
     "ElementNotInteractableException", "StaleElementReferenceException",
     "JavascriptException"}

\* What login can raise: driver.get (line 64), the waits (lines 65, 74),
\* find_element (lines 68-69), send_keys (lines 70-72), which also raises
\* TypeError on the None of an unset credential.
LoginFailures == SeleniumExceptions \cup {"TypeError"}

\* Lines 60-77.
Login ==
    /\ pc = "login"
    /\ \/ /\ log' = Append(log, Event("get", LOGIN_URL, TRUE))
          /\ pc' = "load_catalog"
          /\ UNCHANGED raised
       \/ \E exc \in LoginFailures :
             Raise(exc, Append(log, Event("get", LOGIN_URL, FALSE)))
    /\ UNCHANGED <<driver, catalog, cards, urls, url_types, follow_up, di, rj>>
    /\ UNCHANGED <<xvars, nvars, calls, escaped>>

\* What find_elements returns on a load of the catalog: the cards rendered
\* by then, a prefix of the catalog.
Rendered == {SubSeq(catalog, 1, k) : k \in 0..Len(catalog)}

\* Lines 86-92: load the catalog, wait for its header, enumerate the cards.
\* driver.get, the wait and find_elements can raise; _get_stocks catches
\* none of them.
GetStocksLoad ==
    /\ pc = "load_catalog"
    /\ \/ \E r \in Rendered :
             /\ cards' = r
             /\ log' = log \o <<Event("get", BASE_URL, TRUE),
                                Event("wait_header", BASE_URL, TRUE)>>
             /\ pc' = "collect"
             /\ UNCHANGED raised
       \/ \E exc \in SeleniumExceptions :
             /\ \/ Raise(exc, Append(log, Event("get", BASE_URL, FALSE)))
                \/ Raise(exc, log \o <<Event("get", BASE_URL, TRUE),
                                       Event("wait_header", BASE_URL, FALSE)>>)
                \/ Raise(exc, log \o <<Event("get", BASE_URL, TRUE),
                                       Event("wait_header", BASE_URL, TRUE),
                                       Event("find_cards", BASE_URL, FALSE)>>)
             /\ UNCHANGED cards
    /\ UNCHANGED <<driver, catalog, urls, url_types, follow_up, di, rj>>
    /\ UNCHANGED <<xvars, nvars, calls, escaped>>

\* Lines 93-102: a card without a title element raises NoSuchElementException,
\* which is caught, as is any other exception of the two calls (line 101): the
\* card is skipped; otherwise the href (None when missing) is appended.
RECURSIVE collect_urls(_, _)
collect_urls(elements, acc) ==
    IF elements = <<>> THEN acc
    ELSE collect_urls(Tail(elements),
            IF Head(elements).title
            THEN Append(acc, Head(elements).href)
            ELSE acc)

CollectUrls ==
    /\ pc = "collect"
    /\ urls' = collect_urls(cards, <<>>)
    /\ pc' = "classify"
    /\ UNCHANGED <<driver, catalog, cards, url_types, follow_up, di, rj,
                   raised, log>>
    /\ UNCHANGED <<xvars, nvars, calls, escaped>>

\* Line 103: list(map(self._analyze_url, urls)).  "pick-list" in None raises
\* TypeError, which nothing in _get_stocks catches.
Classify ==
    /\ pc = "classify"
    /\ IF \E k \in 1..Len(urls) : ~urls[k].present
       THEN /\ Raise("TypeError", log)
            /\ UNCHANGED <<url_types, follow_up, di>>
       ELSE /\ url_types' = [k \in 1..Len(urls) |-> _analyze_url(urls[k].url)]
            /\ follow_up' = <<>>
            /\ di' = 0
            /\ pc' = "dispatch"
            /\ UNCHANGED <<raised, log>>
    /\ UNCHANGED <<driver, catalog, cards, urls, rj>>
    /\ UNCHANGED <<xvars, nvars, calls, escaped>>

\* Lines 106-113: one iteration of the dispatch loop.  driver.get can raise
\* (nothing in _get_stocks catches it); _get_stock_details catches its own
\* exceptions.
Dispatch ==
    /\ pc = "dispatch"
    /\ di < Len(urls)
    /\ LET each_url == urls[di + 1].url
           url_type == url_types[di + 1]
       IN  IF url_type = OPEN
           THEN \/ \E extracted \in BOOLEAN :
                      /\ log' = log \o <<Event("get", each_url, TRUE),
                                         Event("extract", PICK_LIST_CLASS,
                                               extracted)>>
                      /\ di' = di + 1
                      /\ UNCHANGED <<pc, follow_up, raised>>
                \/ /\ \E exc \in SeleniumExceptions :
                         Raise(exc, Append(log, Event("get", each_url, FALSE)))
                   /\ UNCHANGED <<di, follow_up>>
           ELSE IF url_type = CLICK
           THEN /\ follow_up' = Append(follow_up, each_url)
                /\ di' = di + 1
                /\ UNCHANGED <<pc, raised, log>>
           ELSE /\ log' = Append(log, Event("unsupported", each_url, TRUE))
                /\ di' = di + 1
                /\ UNCHANGED <<pc, follow_up, raised>>
    /\ UNCHANGED <<driver, catalog, cards, urls, url_types, rj>>
    /\ UNCHANGED <<xvars, nvars, calls, escaped>>

\* Line 115: the dispatch loop is over; click_all(base_url, follow_up).
EnterClickAll ==
    /\ pc = "dispatch"
    /\ di = Len(urls)
    /\ rj' = 0
    /\ pc' = "revisit"
    /\ UNCHANGED <<driver, catalog, cards, urls, url_types, follow_up, di,
                   raised, log>>
    /\ UNCHANGED <<xvars, nvars, calls, escaped>>

\* Lines 140-146: reload the catalog for the next queued url and wait for
\* its header; click_all catches neither an exception of driver.get nor one
\* of the wait.
RevisitLoad ==
    /\ pc = "revisit"
    /\ rj < Len(follow_up)
    /\ \/ \E r \in Rendered :
             /\ cards' = r
             /\ log' = log \o <<Event("get", BASE_URL, TRUE),
                                Event("wait_header", follow_up[rj + 1], TRUE)>>
             /\ pc' = "toggle"
             /\ UNCHANGED raised
       \/ \E exc \in SeleniumExceptions :
             /\ \/ Raise(exc, Append(log, Event("get", BASE_URL, FALSE)))
                \/ Raise(exc,
                         log \o <<Event("get", BASE_URL, TRUE),
                                  Event("wait_header", follow_up[rj + 1],
                                        FALSE)>>)
             /\ UNCHANGED cards
    /\ UNCHANGED <<driver, catalog, urls, url_types, follow_up, di, rj>>
    /\ UNCHANGED <<xvars, nvars, calls, escaped>>

\* Lines 147-160: wait for the panel toggle to be clickable, find and click it
\* (lines 148-152), find the section headers and scroll the second one into
\* view (lines 154-159), sleep.  click_all catches none of the exceptions: one
\* of the wait, of find_element or of button.click() is logged as a failed
\* toggle, one of find_elements or of execute_script as a failed scroll
\* after the toggle was clicked.
CollapsePanel ==
    /\ pc = "toggle"
    /\ \/ /\ log' = Append(log, Event("toggle", follow_up[rj + 1], TRUE))
          /\ pc' = "lookup"
          /\ UNCHANGED raised
       \/ \E exc \in SeleniumExceptions :
             \/ Raise(exc, Append(log, Event("toggle", follow_up[rj + 1],
                                             FALSE)))
             \/ Raise(exc, log \o <<Event("toggle", follow_up[rj + 1], TRUE),
                                    Event("scroll", follow_up[rj + 1], FALSE)>>)
    /\ UNCHANGED <<driver, catalog, cards, urls, url_types, follow_up, di, rj>>
    /\ UNCHANGED <<xvars, nvars, calls, escaped>>

\* What the environment does to the activation of a matching card.
Outcomes == {"activation_error", "extracted", "extraction_error"}

\* Lines 124-138: the loop of _internal_click over elements, from card k on.
\* Every exception inside is caught at line 136 and the loop continues; the
\* loop breaks after the first activation that went through.
RECURSIVE internal_click_from(_, _, _, _, _)
internal_click_from(elements, actual_url, outcome, k, trace) ==
    IF k > Len(elements) THEN trace
    ELSE IF ~elements[k].title
    THEN internal_click_from(elements, actual_url, outcome, k + 1, trace)
    ELSE IF elements[k].href.present /\ elements[k].href.url = actual_url
    THEN IF outcome[k] = "activation_error"
         THEN internal_click_from(elements, actual_url, outcome, k + 1,
                  Append(trace, Event("activate", actual_url, FALSE)))
         ELSE trace \o <<Event("activate", actual_url, TRUE),
                         Event("extract", MODEL_PORTFOLIO_CLASS,
                               outcome[k] = "extracted")>>
    ELSE internal_click_from(elements, actual_url, outcome, k + 1, trace)

\* Lines 161-162 and 120-138: print "Looking up URL", then _internal_click.
\* find_elements at line 121 is outside the try of lines 125-138: its
\* exception leaves click_all.
InternalClick ==
    /\ pc = "lookup"
    /\ \/ /\ \E outcome \in [1..Len(cards) -> Outcomes] :
                log' = internal_click_from(cards, follow_up[rj + 1], outcome, 1,
                          Append(log, Event("lookup", follow_up[rj + 1], TRUE)))
          /\ rj' = rj + 1
          /\ pc' = "revisit"
          /\ UNCHANGED raised
       \/ /\ \E exc \in SeleniumExceptions :
                Raise(exc, log \o <<Event("lookup", follow_up[rj + 1], TRUE),
                                    Event("find_cards", follow_up[rj + 1],
                                          FALSE)>>)
          /\ UNCHANGED rj
    /\ UNCHANGED <<driver, catalog, cards, urls, url_types, follow_up, di>>
    /\ UNCHANGED <<xvars, nvars, calls, escaped>>

\* click_all, _get_stocks and get_all_stocks return; the try block is over.
ReturnFromCrawl ==
    /\ pc = "revisit"
    /\ rj = Len(follow_up)
    /\ pc' = "finally"
    /\ UNCHANGED <<driver, catalog, cards, urls, url_types, follow_up, di, rj,
                   raised, log>>
    /\ UNCHANGED <<xvars, nvars, calls, escaped>>

\* Lines 287-288: except Exception as e: print.
Except ==
    /\ pc = "except"
    /\ pc' = "finally"
    /\ UNCHANGED <<driver, catalog, cards, urls, url_types, follow_up, di, rj,
                   raised, log>>
    /\ UNCHANGED <<xvars, nvars, calls, escaped>>

\* A variant of main without the finally clause.
Quit_NoRelease ==
    /\ pc = "finally"
    /\ pc' = "done"
    /\ UNCHANGED <<driver, catalog, cards, urls, url_types, follow_up, di, rj,
                   raised, log>>
    /\ UNCHANGED <<xvars, nvars, calls, escaped>>

\* Lines 289-290: finally: morning_star.driver.quit().  The finally clause
\* has no handler: when the call raises, the exception leaves main.
Quit ==
    /\ pc = "finally"
    /\ driver' = "quit"
    /\ \/ /\ log' = Append(log, Event("quit", "", TRUE))
          /\ UNCHANGED escaped
       \/ /\ log' = Append(log, Event("quit", "", FALSE))
          /\ escaped' \in SeleniumExceptions
    /\ pc' = "done"
    /\ UNCHANGED <<catalog, cards, urls, url_types, follow_up, di, rj, raised>>
    /\ UNCHANGED <<xvars, nvars, calls>>

NextCrawl ==
    \/ Login
    \/ GetStocksLoad
    \/ CollectUrls
    \/ Classify
    \/ Dispatch
    \/ EnterClickAll
    \/ RevisitLoad
    \/ CollapsePanel
    \/ InternalClick
    \/ ReturnFromCrawl
    \/ Except
    \/ Quit

\* The run is sequential and every wait is bounded: the next statement is
\* always taken.
SpecCrawl == InitCrawl /\ [][NextCrawl]_vars /\ WF_vars(NextCrawl)

(***************************************************************************)
(* get_stock_newsletters, _download, _rename_file and _get_file_name,      *)
(* called twice in a row on the same collection page.                      *)
(***************************************************************************)
\* A variant that keeps the last three tokens.
_get_file_name_LastThree(text) ==
    LET tokens == split(text, " ")
    IN  join(IF Len(tokens) <= 3 THEN tokens
             ELSE SubSeq(tokens, Len(tokens) - 2, Len(tokens)))

\* Lines 274-276: "".join(text.split(" ")[-2:]).
_get_file_name(text) == join(last_two(split(text, " ")))

Heading(u, t) == [anchor |-> TRUE, url |-> u, text |-> t]

HeadingKinds ==
    { Heading("/articles/1", "March 2024 Stock Investor"),
      Heading("/articles/2", "April 2024 Stock Investor"),
      Heading("/articles/3", "Stock-Investor"),
      [anchor |-> FALSE, url |-> "", text |-> "Archive"] }

\* A name the browser gives a download that is neither text + ".pdf" nor
\* that name without its hyphens.
UNEXPECTED_NAME == "download.pdf"

\* The download directory of an earlier session.
InitNews ==
    /\ npc = "load"
    /\ headings \in SeqsUpTo(HeadingKinds, MaxEntries)
    /\ arr = <<>> /\ nidx = 0
    /\ files \in SUBSET {"StockInvestor.pdf"}
    /\ downloads = <<>> /\ ncalls = 0
    /\ names = <<>> /\ mismatches = <<>> /\ results = <<>>
    /\ IdleExtract /\ IdleCrawl /\ IdleClassify

\* The running call of get_stock_newsletters ends, by return or by an
\* exception; the second call starts after the first.
EndCall(status, exc, result, made) ==
    /\ results' = Append(results,
                         [status |-> status, exc |-> exc,
                          downloads |-> result, download_calls |-> made])
    /\ npc' = IF Len(results) = 0 THEN "load" ELSE "done"
    /\ arr' = <<>> /\ nidx' = 0 /\ downloads' = <<>> /\ ncalls' = 0

\* Lines 228-234: headings without an anchor are skipped.
RECURSIVE collect_entries(_, _)
collect_entries(elements, acc) ==
    IF elements = <<>> THEN acc
    ELSE collect_entries(Tail(elements),
            IF Head(elements).anchor
            THEN Append(acc, [url |-> Head(elements).url,
                              text |-> strip(Head(elements).text)])
            ELSE acc)

\* Lines 223-235.  driver.get (line 223), the wait for the title (line 224)
\* and find_elements (line 225) can raise, and so can the calls on a heading
\* (lines 230-231), of which only NoSuchElementException is caught (line 233);
\* the exception leaves get_stock_newsletters before any download.
NewsLoad ==
    /\ npc = "load"
    /\ \/ /\ arr' = collect_entries(headings, <<>>)
          /\ nidx' = 0 /\ downloads' = <<>> /\ ncalls' = 0
          /\ npc' = "entry"
          /\ UNCHANGED results
       \/ \E exc \in SeleniumExceptions :
             EndCall("raised", exc, <<>>, 0)
    /\ UNCHANGED <<headings, files, names, mismatches>>
    /\ UNCHANGED <<xvars, cvars, calls>>

\* Lines 263-266: the path _rename_file settles on.
original_path(dir, filename) ==
    IF filename \in dir THEN filename ELSE remove_char(filename, "-")

\* Lines 236-243: one iteration of the loop over arr.  _download either
\* raises (driver.get at line 248, the waits of lines 249 and 253,
\* elem.click() at line 257) or leaves a file in the directory (landed is its name, "" when
\* nothing has landed after the 7 seconds); os.rename raises
\* FileNotFoundError when its source does not exist.
NewsEntry ==
    /\ npc = "entry"
    /\ nidx < Len(arr)
    /\ LET text == arr[nidx + 1].text
           file_name == _get_file_name(text) \o ".pdf"
           filename == text \o ".pdf"
       IN  /\ names' = Append(names, [text |-> text, file_name |-> file_name])
           /\ IF file_name \in files
              THEN /\ nidx' = nidx + 1
                   /\ UNCHANGED <<npc, arr, files, downloads, ncalls,
                                  mismatches, results>>
              ELSE \/ /\ \E exc \in SeleniumExceptions :
                            EndCall("raised", exc, downloads, ncalls + 1)
                      /\ UNCHANGED <<files, mismatches>>
                   \/ \E landed \in {filename, remove_char(filename, "-"),
                                     UNEXPECTED_NAME, ""} :
                         LET dir == IF landed = "" THEN files
                                    ELSE files \cup {landed}
                             original == original_path(dir, filename)
                         IN  IF original \notin dir
                             THEN /\ mismatches' = Append(mismatches, filename)
                                  /\ files' = dir
                                  /\ EndCall("raised", "FileNotFoundError",
                                             downloads, ncalls + 1)
                             ELSE /\ files' = (dir \ {original}) \cup {file_name}
                                  /\ downloads' = Append(downloads, file_name)
                                  /\ ncalls' = ncalls + 1
                                  /\ nidx' = nidx + 1
                                  /\ UNCHANGED <<npc, arr, mismatches, results>>
    /\ UNCHANGED headings
    /\ UNCHANGED <<xvars, cvars, calls>>

\* Line 244: return downloads.
NewsReturn ==
    /\ npc = "entry"
    /\ nidx = Len(arr)
    /\ EndCall("returned", "", downloads, ncalls)
    /\ UNCHANGED <<headings, files, names, mismatches>>
    /\ UNCHANGED <<xvars, cvars, calls>>

NextNews ==
    \/ NewsLoad
    \/ NewsEntry
    \/ NewsReturn

SpecNews == InitNews /\ [][NextNews]_vars

(***************************************************************************)
(* _analyze_url applied to a series of urls.                               *)
(***************************************************************************)
UrlParts == {"pick-list", "pick-", "list", "model-portfolio"}

Urls == {join(parts) : parts \in SeqsUpTo(UrlParts, MaxParts)}

InitClassify ==
    /\ calls = <<>>
    /\ IdleExtract /\ IdleCrawl /\ IdleNews

AnalyzeUrl ==
    /\ Len(calls) < MaxCalls
    /\ \E url \in Urls :
          calls' = Append(calls, [url |-> url, type |-> _analyze_url(url)])
    /\ UNCHANGED <<xvars, cvars, nvars>>

NextClassify == AnalyzeUrl

SpecClassify == InitClassify /\ [][NextClassify]_vars

(***************************************************************************)
(* The program as a whole: any one of the entry points above is run.       *)
(***************************************************************************)
Init == InitExtract \/ InitCrawl \/ InitNews \/ InitClassify

Next == NextExtract \/ NextCrawl \/ NextNews \/ NextClassify

Spec == Init /\ [][Next]_vars /\ WF_vars(NextCrawl)

(***************************************************************************)
(* Properties of the table extractor (under SpecExtract).                  *)
(***************************************************************************)
RECURSIVE Flatten(_)
Flatten(groups) ==
    IF groups = <<>> THEN <<>> ELSE Head(groups) \o Flatten(Tail(groups))

\* The header positions (1-based) whose trimmed label is l.
PositionsOf(ths, l) == {i \in 1..Len(ths) : strip(ths[i]) = l}

Greatest(S) == CHOOSE m \in S : \A n \in S : n <= m

FilterLabelsIn(ths) ==
    {l \in DOMAIN filter_criteria : PositionsOf(ths, l) # {}}

\* The row has the header's width and passes every filter column the header
\* carries.
Kept(ths, row) ==
    /\ Len(row) = Len(ths)
    /\ \A l \in FilterLabelsIn(ths) :
          \A i \in PositionsOf(ths, l) : strip(row[i]) \in filter_criteria[l]

\* The wanted labels of the header, each mapped to the trimmed cell under the
\* label (under its last occurrence when the header repeats the label).
RefRecord(ths, row) ==
    [l \in {w \in interesting_columns : PositionsOf(ths, w) # {}}
        |-> strip(row[Greatest(PositionsOf(ths, l))])]

RefRecordsOf(ths, rows) ==
    LET kept == SelectSeq(rows, LAMBDA row : Kept(ths, row))
    IN  [i \in 1..Len(kept) |-> RefRecord(ths, kept[i])]

RefRecords(t) == RefRecordsOf(t.ths, Flatten(t.tbodies))

\* C3: for every table region, the records _get_stock_details prints are, in
\* document order across row groups and within each, one record per row whose
\* cell count equals the header's and whose trimmed value is accepted in every
\* filter column of the header; each record maps exactly the wanted labels of
\* the header to the row's trimmed cell; no label outside the wanted set.
\* (When a driver call raises during the scan, the same holds of the rows
\* handled before it.)
C3_ExtractEqualsReference ==
    xpc = "done" =>
        /\ raised_at = NO_RAISE => printed = RefRecords(table)
        /\ raised_at # NO_RAISE =>
              printed = RefRecordsOf(table.ths,
                            SubSeq(Flatten(table.tbodies), 1, raised_at))
        /\ \A i \in 1..Len(printed) :
              DOMAIN printed[i] \subseteq interesting_columns

\* Two row groups, one kept row in each, two different records, and a filter
\* column in the header.
C3_Witness ==
    /\ xpc = "done" /\ raised_at = NO_RAISE
    /\ Len(table.tbodies) = 2
    /\ Len(table.tbodies[1]) = 1 /\ Len(table.tbodies[2]) = 1
    /\ FilterLabelsIn(table.ths) # {}
    /\ Len(printed) = 2
    /\ printed[1] # printed[2]
    /\ DOMAIN printed[1] # {}

\* C4 as stated: a table whose header lacks the filter column "Base Currency"
\* yields no record.
C4_AbsentFilterColumnRejects ==
    (xpc = "done" /\ FilterLabelsIn(table.ths) = {}) => printed = <<>>

\* The rows the scan got through: all of them, or those before the row at
\* which a driver call raised.
Scanned ==
    IF raised_at = NO_RAISE THEN Flatten(table.tbodies)
    ELSE SubSeq(Flatten(table.tbodies), 1, raised_at)

WidthMatches == {i \in 1..Len(Scanned) : Len(Scanned[i]) = Len(table.ths)}

\* C4 amended: a filter applies only when its column is in the header.  With
\* no filter column in the header every scanned row of the header's width
\* yields a record; with one, exactly the rows that also pass it do.
C4_FilterOnlyPresentColumns ==
    xpc = "done" =>
        /\ FilterLabelsIn(table.ths) = {} =>
              Len(printed) = Cardinality(WidthMatches)
        /\ Len(printed) =
              Cardinality({i \in WidthMatches : Kept(table.ths, Scanned[i])})

\* A header without the filter column, and a row with a currency that the
\* filter would reject, still printed.
C4_Witness ==
    /\ xpc = "done" /\ raised_at = NO_RAISE
    /\ table.ths # <<>>
    /\ FilterLabelsIn(table.ths) = {}
    /\ \E i \in WidthMatches :
          \E j \in 1..Len(table.ths) : Scanned[i][j] = "Euro"
    /\ Len(printed) = Cardinality(WidthMatches)
    /\ Len(printed) >= 1

(***************************************************************************)
(* Properties of main, _get_stocks and click_all (under SpecCrawl).        *)
(***************************************************************************)
Logged(e) == \E k \in 1..Len(log) : log[k] = e

\* C1: click_all attempts every queued target: once the run is over, the
\* card lookup of _internal_click has been reached for each url of the
\* queue, whatever failed during the revisit of an earlier one.
C1_EveryQueuedTargetLookedUp ==
    (pc = "done" /\ rj >= 0) =>
        \A k \in 1..Len(follow_up) : Logged(Event("lookup", follow_up[k], TRUE))

\* C2: collapsing the side panel is best-effort: a toggle that never becomes
\* clickable during the revisit of a target is followed by the card lookup
\* for that same target.
C2_PanelToggleBestEffort ==
    pc = "done" =>
        \A k \in 1..Len(log) :
            (log[k].op = "toggle" /\ ~log[k].ok) =>
                \E m \in (k + 1)..Len(log) :
                    log[m] = Event("lookup", log[k].arg, TRUE)

\* C9: one bad card never aborts the catalog page: when the catalog loaded
\* and no driver call failed, every collected url is classified, every Direct
\* url is navigated to and extracted, every Indirect url is queued for
\* click_all, also when some card has no title or no href.
C9_BadCardDoesNotAbortPage ==
    (/\ pc = "done"
     /\ Logged(Event("wait_header", BASE_URL, TRUE))
     /\ raised \notin SeleniumExceptions) =>
        \A k \in 1..Len(urls) :
            urls[k].present =>
                /\ _analyze_url(urls[k].url) = OPEN =>
                      \E m \in 1..(Len(log) - 1) :
                          /\ log[m] = Event("get", urls[k].url, TRUE)
                          /\ log[m + 1].op = "extract"
                /\ _analyze_url(urls[k].url) = CLICK =>
                      \E m \in 1..Len(follow_up) : follow_up[m] = urls[k].url

QuitEvents == {k \in 1..Len(log) : log[k].op = "quit"}

\* C10: every run of main, whatever login and the crawl did, releases the
\* browser session exactly once before it exits, and makes no driver call
\* after the release.
C10_SessionReleasedOnce ==
    /\ [](/\ Cardinality(QuitEvents) <= 1
          /\ \A k \in QuitEvents : k = Len(log)
          /\ (driver = "quit") = (QuitEvents # {})
          /\ pc = "done" => driver = "quit")
    /\ <>(pc = "done" /\ driver = "quit" /\ Cardinality(QuitEvents) = 1)

\* A run whose revisit raised a timeout out of click_all, released at the end.
C10_Witness ==
    /\ pc = "done"
    /\ raised = "TimeoutException"
    /\ rj >= 0
    /\ driver = "quit"
    /\ log[Len(log)].op = "quit"
    /\ Len(log) > 1

(***************************************************************************)
(* Properties of the newsletter fetcher (under SpecNews).                  *)
(***************************************************************************)
\* C5 as stated: "March 2024 Stock Investor" is named "2024StockInvestor.pdf".
C5_NamedWithYear ==
    \A k \in 1..Len(names) :
        names[k].text = "March 2024 Stock Investor" =>
            names[k].file_name = "2024StockInvestor.pdf"

\* C5 amended: "March 2024 Stock Investor" is named "StockInvestor.pdf" (its
\* last two space-separated tokens and the extension), and the name depends
\* on the display text alone: the same text is given the same name every
\* time.
C5_NamedByLastTwoTokens ==
    \A k \in 1..Len(names) :
        /\ names[k].text = "March 2024 Stock Investor" =>
              names[k].file_name = "StockInvestor.pdf"
        /\ \A m \in 1..Len(names) :
              names[m].text = names[k].text =>
                  names[m].file_name = names[k].file_name

\* The text was named in both calls.
C5_Witness ==
    /\ Len(results) = 2
    /\ \E k, m \in 1..Len(names) :
          /\ k < m
          /\ names[k].text = "March 2024 Stock Investor"
          /\ names[m].text = "March 2024 Stock Investor"
          /\ names[m].file_name = "StockInvestor.pdf"

\* C6: a second call of get_stock_newsletters on the same entries, with no
\* file removed in between, downloads nothing (stated for first calls that
\* returned normally).
C6_SecondRunDownloadsNothing ==
    (Len(results) >= 1 /\ results[1].status = "returned") =>
        /\ Len(results) = 1 => ncalls = 0
        /\ Len(results) = 2 => results[2].download_calls = 0

\* C7: when neither the raw name nor its hyphen-stripped variant exists,
\* _rename_file reports the mismatch and still returns the canonical name: no
\* exception, the name is appended and the loop goes on.
C7_MismatchStillReturnsName ==
    \A k \in 1..Len(results) :
        results[k].exc # "FileNotFoundError"

(***************************************************************************)
(* Properties of _analyze_url (under SpecClassify).                        *)
(***************************************************************************)
StartsWith(s, marker) ==
    Len(s) >= Len(marker) /\ SubSeq(s, 1, Len(marker)) = marker

\* marker occurs in url: some suffix of url starts with it.
RECURSIVE HasMarker(_, _)
HasMarker(url, marker) ==
    \/ StartsWith(url, marker)
    \/ Len(url) > 0 /\ HasMarker(Tail(url), marker)

\* C8: every url containing "pick-list" is OPEN, also when it contains
\* "model-portfolio" too; every url containing "model-portfolio" and not
\* "pick-list" is CLICK; every other url is UNSUPPORTED; and a url classified
\* again, in any order among other urls, gets the same result.
C8_ClassifierTotalDeterministic ==
    \A k \in 1..Len(calls) :
        LET url == calls[k].url
            type == calls[k].type
        IN  /\ type \in URLType
            /\ HasMarker(url, "pick-list") => type = OPEN
            /\ (HasMarker(url, "model-portfolio")
                    /\ ~HasMarker(url, "pick-list")) => type = CLICK
            /\ (~HasMarker(url, "model-portfolio")
                    /\ ~HasMarker(url, "pick-list")) => type = UNSUPPORTED
            /\ \A m \in 1..Len(calls) :
                  calls[m].url = url => calls[m].type = type

\* A url with both markers, classified twice with another url in between
\* or not, OPEN both times.
C8_Witness ==
    /\ Len(calls) = 2
    /\ calls[1].url = calls[2].url
    /\ HasMarker(calls[1].url, "pick-list")
    /\ HasMarker(calls[1].url, "model-portfolio")
    /\ calls[2].type = OPEN

====
